---- MODULE Spec2Model ----
(***************************************************************************)
(* Othello AI player (agent.py): minimax and alpha-beta search with an     *)
(* optional transposition cache and optional node ordering, and the turn   *)
(* loop that talks to the game manager.                                     *)
(*                                                                         *)
(* A board is a tuple of rows, each row a tuple of cells (0 empty, 1 dark, *)
(* 2 light), exactly as the manager sends it; board[v][u] of the Python is *)
(* board[v + 1][u + 1] here.  A move is the pair <<i, j>> of zero-based    *)
(* column and row.  The search is modelled step by step with an explicit   *)
(* call stack so that the cache, the remaining depth and the alpha-beta    *)
(* window of every active node are part of the state.                      *)
(***************************************************************************)
EXTENDS Integers, Sequences, FiniteSets, TLC

(***************************************************************************)
(* Values of the Python program                                            *)
(***************************************************************************)
\* math.inf; every utility is bounded by the number of cells of a board
inf == 999

\* Python's None, the move component of a value-only result
None == <<>>

\* cache = {}  (also the value after cache.clear())
EmptyCache == <<>>

PLAYER_ONE == 1
PLAYER_TWO == 2

(***************************************************************************)
(* othello_shared: the game rules the agent imports                        *)
(***************************************************************************)
\* the eight directions in the order find_lines tries them
Directions ==
  << <<0, 1>>, <<1, 1>>, <<1, 0>>, <<1, -1>>,
     <<0, -1>>, <<-1, -1>>, <<-1, 0>>, <<-1, 1>> >>

\* tuple(...): the cells or rows as one tuple value
AsTuple(f) == <<>> \o f

\* Python evaluates an expression once and then uses its value: F applied
\* to the value of v
CallByValue(F(_), v) == CHOOSE r \in { F(x) : x \in {v} } : TRUE

\* the cell t steps from (i, j) in direction (xdir, ydir)
line_cell(i, j, xdir, ydir, t) == <<i + t * xdir, j + t * ydir>>

\* u >= 0 and u < len(board) and v >= 0 and v < len(board)
on_board(board, c) ==
  c[1] >= 0 /\ c[1] < Len(board) /\ c[2] >= 0 /\ c[2] < Len(board)

\* the number of steps after which the while loop of find_lines stops: at
\* the first cell that is off the board, empty or a disk of player
first_stop(board, i, j, xdir, ydir, player) ==
  CallByValue(LAMBDA stops : CHOOSE t \in stops : \A s \in stops : t <= s,
              { t \in 1..Len(board) :
                  \/ ~on_board(board, line_cell(i, j, xdir, ydir, t))
                  \/ board[j + t * ydir + 1][i + t * xdir + 1] \in {0, player} })

\* the while loop of find_lines for one direction: the opponent disks
\* walked over are the line when the loop stops at a disk of player
\* (found), and otherwise there is no line (<<>>)
walk_line(board, i, j, xdir, ydir, player) ==
  CallByValue(LAMBDA t0 :
                IF /\ on_board(board, line_cell(i, j, xdir, ydir, t0))
                   /\ board[j + t0 * ydir + 1][i + t0 * xdir + 1] = player
                THEN AsTuple([s \in 1..(t0 - 1) |-> line_cell(i, j, xdir, ydir, s)])
                ELSE <<>>,
              first_stop(board, i, j, xdir, ydir, player))

\* the lines (non-empty sequences of opponent disks) flipped by player
\* placing a disk at column i, row j, in the order of the directions
find_lines(board, i, j, player) ==
  SelectSeq([d \in 1..Len(Directions) |->
               walk_line(board, i, j, Directions[d][1], Directions[d][2], player)],
            LAMBDA line : line # <<>>)

\* the cells <<i, j>> in the order of the nested loops of
\* get_possible_moves: column i outermost, row j innermost
Cells(board) ==
  [k \in 1..(Len(board) * Len(board)) |->
     <<(k - 1) \div Len(board), (k - 1) % Len(board)>>]

\* the empty cells where player flips at least one line, in loop order
get_possible_moves(board, player) ==
  SelectSeq(Cells(board),
            LAMBDA m : /\ board[m[2] + 1][m[1] + 1] = 0
                       /\ find_lines(board, m[1], m[2], player) # <<>>)

\* the cells of all lines
Flipped(lines) ==
  UNION { { lines[l][k] : k \in 1..Len(lines[l]) } : l \in 1..Len(lines) }

\* a new board, a tuple of row tuples, with the disk placed at column i,
\* row j and the lines flipped
play_move(board, player, i, j) ==
  CallByValue(LAMBDA flips :
                AsTuple([v \in 1..Len(board) |->
                  AsTuple([u \in 1..Len(board) |->
                    IF (u - 1 = i /\ v - 1 = j) \/ <<u - 1, v - 1>> \in flips
                    THEN player
                    ELSE board[v][u]])]),
              Flipped(find_lines(board, i, j, player)))

\* the disk counts (p1_count, p2_count)
get_score(board) ==
  << Len(SelectSeq(Cells(board), LAMBDA m : board[m[1] + 1][m[2] + 1] = 1)),
     Len(SelectSeq(Cells(board), LAMBDA m : board[m[1] + 1][m[2] + 1] = 2)) >>

(***************************************************************************)
(* agent.py: utility and node ordering                                     *)
(***************************************************************************)
\* a slip: the color is not looked at
compute_utility_one_sided(board, color) ==
  LET util_raw == get_score(board)
  IN util_raw[1] - util_raw[2]

compute_utility(board, color) ==
  LET util_raw == get_score(board)
  IN IF color = 1 THEN util_raw[1] - util_raw[2]
     ELSE util_raw[2] - util_raw[1]

\* self_color = 1 if color == 2 else 2
other_color(color) == IF color = 2 THEN 1 ELSE 2

\* list.sort(key = utility, reverse) of the pairs <<move, utility>>: a
\* stable sort, also under reverse = True; the pair at index k comes after
\* the pairs that sort strictly before it and the equal ones at lower indexes
stable_sort(moves, reverse) ==
  LET before(a, b) ==
        \/ IF reverse THEN moves[a][2] > moves[b][2] ELSE moves[a][2] < moves[b][2]
        \/ moves[a][2] = moves[b][2] /\ a < b
      place(k) == Cardinality({ a \in 1..Len(moves) : before(a, k) }) + 1
  IN AsTuple([p \in 1..Len(moves) |->
                moves[CHOOSE k \in 1..Len(moves) : place(k) = p]])

\* moves.append((move, compute_utility(play_move(...), max)))
scored_move(board, color, max, move) ==
  << move,
     CallByValue(LAMBDA nxt : compute_utility(nxt, max),
                 play_move(board, color, move[1], move[2])) >>

\* the list moves after the first loop of order_moves
scored_moves(board, color, max) ==
  CallByValue(LAMBDA poss_moves :
                AsTuple([k \in 1..Len(poss_moves) |->
                           scored_move(board, color, max, poss_moves[k])]),
              get_possible_moves(board, color))

\* the moves of the pairs (the list returned) after the sort
order_moves(board, color, max) ==
  CallByValue(LAMBDA sorted : AsTuple([k \in 1..Len(sorted) |-> sorted[k][1]]),
              CallByValue(LAMBDA moves : stable_sort(moves, color = max),
                          scored_moves(board, color, max)))

(***************************************************************************)
(* State                                                                   *)
(***************************************************************************)
VARIABLES
  cache,    \* the module-level dict: board -> <<move, utility>>
  stack,    \* the active node calls, the innermost last
  ret,      \* the pair <<move, utility>> returned by the node call that ended last
  call,     \* the arguments of the top-level select_move_* call in progress or last made
  status,   \* "idle" before any call, "running" inside a call, "returned" after it
  result,   \* the move the last top-level call returned
  prev,     \* the outcome of the preceding call when it had the same function,
            \* board, color, limit and caching flag as this one
  pc,       \* run_ai: the statement the turn loop is at
  config,   \* run_ai: the five handshake arguments; a direct caller: its position
  final,    \* run_ai: a status line with STATUS "FINAL" has been read
  late,     \* run_ai: an input line has been read after the FINAL line
  reads,    \* run_ai: board lines read since the last status line
  prints,   \* run_ai: move lines printed since the last status line
  hits,     \* cache hits of the call in progress or last made (a history count)
  cuts      \* breaks out of a node's loop in that call (a history count)

search_vars == <<cache, stack, ret, call, status, result, prev, hits, cuts>>
runai_vars == <<pc, config, final, late, reads, prints>>
vars == <<cache, stack, ret, call, status, result, prev, hits, cuts,
          pc, config, final, late, reads, prints>>

(***************************************************************************)
(* Inputs                                                                  *)
(***************************************************************************)
\* the largest positive depth limit a call is given
MaxLimit == 4
\* the largest depth limit given on a board with more than MaxEmpty empty cells
ShallowLimit == 2
\* boards with more empty cells than this are searched to ShallowLimit at most
MaxEmpty == 6

\* the standard starting position on an n x n board (n even)
StartBoard(n) ==
  AsTuple([v \in 1..n |-> AsTuple([u \in 1..n |->
     IF (v = n \div 2 /\ u = n \div 2) \/ (v = n \div 2 + 1 /\ u = n \div 2 + 1) THEN 2
     ELSE IF (v = n \div 2 /\ u = n \div 2 + 1) \/ (v = n \div 2 + 1 /\ u = n \div 2) THEN 1
     ELSE 0])])

StandardStart == StartBoard(8)

\* positions of 4 x 4 games in progress, the two starting positions, a
\* position where dark must pass and one where neither player can move
Boards ==
  { << <<0, 0, 0, 2>>, <<1, 1, 2, 2>>, <<0, 1, 1, 1>>, <<0, 2, 1, 1>> >>,
    << <<2, 0, 0, 0>>, <<2, 1, 1, 0>>, <<2, 1, 2, 2>>, <<0, 1, 1, 0>> >>,
    << <<0, 0, 1, 1>>, <<1, 1, 1, 1>>, <<1, 1, 2, 1>>, <<1, 1, 1, 2>> >>,
    << <<0, 0, 1, 1>>, <<2, 2, 1, 1>>, <<2, 2, 2, 1>>, <<2, 2, 2, 2>> >>,
    StartBoard(4),
    StandardStart }

Colors == {PLAYER_ONE, PLAYER_TWO}
Flags == {0, 1}
Limits == {-1} \cup (0..MaxLimit)

Empties(board) ==
  Cardinality({ c \in (1..Len(board)) \X (1..Len(board)) : board[c[1]][c[2]] = 0 })

\* the searches small enough to run to the end
Searchable(board, limit) ==
  (limit = -1 \/ limit > ShallowLimit) => Empties(board) <= MaxEmpty

NoPrev == [valid |-> FALSE, ordering |-> 0, move |-> None, util |-> 0]
NoCall == [fn |-> "none", board |-> <<>>, color |-> 0, limit |-> 0,
           caching |-> 0, ordering |-> 0]

(***************************************************************************)
(* The four node functions, by name                                        *)
(***************************************************************************)
IsMax(fn) == fn \in {"minimax_max_node", "alphabeta_max_node"}
IsAlphabeta(fn) == fn \in {"alphabeta_min_node", "alphabeta_max_node"}

\* the node function a node calls on each child
callee(fn) ==
  CASE fn = "minimax_max_node" -> "minimax_min_node"
    [] fn = "minimax_min_node" -> "minimax_max_node"
    [] fn = "alphabeta_max_node" -> "alphabeta_min_node"
    [] fn = "alphabeta_min_node" -> "alphabeta_max_node"

\* the player who moves at a node: color at a max node, self_color at a min node
mover(fn, color) == IF IsMax(fn) THEN color ELSE other_color(color)

\* if caching and board in cache
cache_hit(caching, board, c) == caching # 0 /\ board \in DOMAIN c

\* poss_moves of a node
node_moves(fn, board, color, ordering) ==
  IF IsAlphabeta(fn) /\ ordering # 0
  THEN order_moves(board, mover(fn, color), color)
  ELSE get_possible_moves(board, mover(fn, color))

\* a slip: the test for an empty move list is left out
is_leaf_depth_only(poss_moves, limit) == limit = 0

\* a slip: the depth test written as limit <= 0
is_leaf_nonpositive(poss_moves, limit) == Len(poss_moves) = 0 \/ limit <= 0

\* if len(poss_moves) == 0 or limit == 0
is_leaf(poss_moves, limit) == Len(poss_moves) = 0 \/ limit = 0

\* the initial curr_best_util / curr_wrst_util
start_util(fn) == IF IsMax(fn) THEN -inf ELSE inf

\* if move_util > curr_best_util (max) / if move_util < curr_wrst_util (min)
improves(fn, move_util, curr_util) ==
  IF IsMax(fn) THEN move_util > curr_util ELSE move_util < curr_util

Max(a, b) == IF a >= b THEN a ELSE b
Min(a, b) == IF a <= b THEN a ELSE b

\* alpha = max(alpha, move_util) at a max node, beta = min(beta, move_util)
\* at a min node; the minimax nodes have no window
window_after(fn, alpha, beta, move_util) ==
  IF ~IsAlphabeta(fn) THEN <<alpha, beta>>
  ELSE IF IsMax(fn) THEN <<Max(alpha, move_util), beta>>
  ELSE <<alpha, Min(beta, move_util)>>

\* a slip: the comparison the wrong way round
cutoff_reversed(fn, alpha, beta) == IsAlphabeta(fn) /\ alpha <= beta

\* if beta <= alpha: break
cutoff(fn, alpha, beta) == IsAlphabeta(fn) /\ beta <= alpha

\* a slip: the result is stored under the parent board
cache_key_parent(board, next_state) == board

\* the key of cache[next_state] = move, move_util
cache_key(board, next_state) == next_state

\* cache[key] = move, move_util
cache_store(c, key, move, move_util) ==
  [b \in DOMAIN c \cup {key} |-> IF b = key THEN <<move, move_util>> ELSE c[b]]

\* a slip: the cache is not cleared
cache_clear_missing(c) == c

\* cache.clear()
cache_clear(c) == EmptyCache

\* a slip: the limit is passed on unchanged
child_limit_same(limit) == limit

\* the limit argument of the call on a child: limit - 1
child_limit(limit) == limit - 1

\* a node call at its first statement
Frame(fn, board, color, alpha, beta, limit, caching, ordering) ==
  [fn |-> fn, board |-> board, color |-> color, alpha |-> alpha, beta |-> beta,
   limit |-> limit, caching |-> caching, ordering |-> ordering,
   at |-> "enter", poss_moves |-> <<>>, k |-> 0, next_state |-> <<>>,
   best |-> <<0, 0>>, util |-> 0]

Top == stack[Len(stack)]
Pop == SubSeq(stack, 1, Len(stack) - 1)
SetTop(f) == [stack EXCEPT ![Len(stack)] = f]

\* next_state = play_move(board, mover, move[0], move[1]) for the move of
\* the loop iteration the frame is in
next_state(f) ==
  play_move(f.board, mover(f.fn, f.color), f.poss_moves[f.k][1], f.poss_moves[f.k][2])


(***************************************************************************)
(* The search without the cache, as a function                             *)
(***************************************************************************)
\* minimax_max_node / minimax_min_node called with caching = 0: the value
\* <<move, utility>> they return
RECURSIVE minimax_node(_, _, _, _)
RECURSIVE minimax_loop(_, _, _, _, _, _, _, _)
minimax_node(fn, board, color, limit) ==
  LET poss_moves == get_possible_moves(board, mover(fn, color))
  IN IF is_leaf(poss_moves, limit)
     THEN <<None, compute_utility(board, color)>>
     ELSE minimax_loop(fn, board, color, limit, poss_moves, 1, <<0, 0>>, start_util(fn))

minimax_loop(fn, board, color, limit, poss_moves, k, best, util) ==
  IF k > Len(poss_moves) THEN <<best, util>>
  ELSE LET move == poss_moves[k]
           nxt == play_move(board, mover(fn, color), move[1], move[2])
           move_util == minimax_node(callee(fn), nxt, color, child_limit(limit))[2]
       IN IF improves(fn, move_util, util)
          THEN minimax_loop(fn, board, color, limit, poss_moves, k + 1, move, move_util)
          ELSE minimax_loop(fn, board, color, limit, poss_moves, k + 1, best, util)

(***************************************************************************)
(* Top-level calls                                                         *)
(***************************************************************************)
\* the outcome of the call that just returned, kept when the next call has
\* the same function, board, color, limit and caching flag
Remember(new) ==
  IF status = "returned" /\ [call EXCEPT !.ordering = 0] = [new EXCEPT !.ordering = 0]
  THEN [valid |-> TRUE, ordering |-> call.ordering, move |-> result, util |-> ret[2]]
  ELSE NoPrev

select_move_minimax(board, color, limit, caching) ==
  LET new == [fn |-> "select_move_minimax", board |-> board, color |-> color,
              limit |-> limit, caching |-> caching, ordering |-> 0]
  IN /\ status # "running"
     /\ cache' = cache_clear(cache)
     /\ stack' = << Frame("minimax_max_node", board, color, -inf, inf, limit, caching, 0) >>
     /\ call' = new
     /\ prev' = Remember(new)
     /\ status' = "running"
     /\ ret' = <<None, 0>>
     /\ result' = None
     /\ hits' = 0
     /\ cuts' = 0

select_move_alphabeta(board, color, limit, caching, ordering) ==
  LET new == [fn |-> "select_move_alphabeta", board |-> board, color |-> color,
              limit |-> limit, caching |-> caching, ordering |-> ordering]
  IN /\ status # "running"
     /\ cache' = cache_clear(cache)
     /\ stack' = << Frame("alphabeta_max_node", board, color, -inf, inf, limit,
                          caching, ordering) >>
     /\ call' = new
     /\ prev' = Remember(new)
     /\ status' = "running"
     /\ ret' = <<None, 0>>
     /\ result' = None
     /\ hits' = 0
     /\ cuts' = 0

\* return ..._max_node(...)[0]
SelectReturn ==
  /\ status = "running"
  /\ stack = <<>>
  /\ result' = ret[1]
  /\ status' = "returned"
  /\ UNCHANGED <<cache, stack, ret, call, prev, hits, cuts>>
  /\ UNCHANGED runai_vars

(***************************************************************************)
(* The steps of a node call                                                *)
(***************************************************************************)
\* if caching and board in cache: return cache[board]
CacheHit ==
  /\ stack # <<>>
  /\ Top.at = "enter"
  /\ cache_hit(Top.caching, Top.board, cache)
  /\ ret' = cache[Top.board]
  /\ stack' = Pop
  /\ hits' = hits + 1
  /\ UNCHANGED <<cache, call, status, result, prev, cuts>>
  /\ UNCHANGED runai_vars

\* the cache has no entry to return: poss_moves = get_possible_moves(...)
\* or order_moves(...)
Moves ==
  /\ stack # <<>>
  /\ Top.at = "enter"
  /\ ~cache_hit(Top.caching, Top.board, cache)
  /\ stack' = SetTop([Top EXCEPT
                        !.at = "test",
                        !.poss_moves = node_moves(Top.fn, Top.board, Top.color,
                                                  Top.ordering)])
  /\ UNCHANGED <<cache, ret, call, status, result, prev, hits, cuts>>
  /\ UNCHANGED runai_vars

\* if len(poss_moves) == 0 or limit == 0:
\*   return None, compute_utility(board, color)
Leaf ==
  /\ stack # <<>>
  /\ Top.at = "test"
  /\ is_leaf(Top.poss_moves, Top.limit)
  /\ ret' = <<None, compute_utility(Top.board, Top.color)>>
  /\ stack' = Pop
  /\ UNCHANGED <<cache, call, status, result, prev, hits, cuts>>
  /\ UNCHANGED runai_vars

\* best, curr_best_util = (0, 0), -math.inf, and the for loop is entered
Expand ==
  /\ stack # <<>>
  /\ Top.at = "test"
  /\ ~is_leaf(Top.poss_moves, Top.limit)
  /\ stack' = SetTop([Top EXCEPT !.at = "loop", !.k = 1, !.best = <<0, 0>>,
                                 !.util = start_util(Top.fn)])
  /\ UNCHANGED <<cache, ret, call, status, result, prev, hits, cuts>>
  /\ UNCHANGED runai_vars

\* for move in poss_moves: next_state = play_move(...); the child is called
Descend ==
  /\ stack # <<>>
  /\ Top.at = "loop"
  /\ Top.k <= Len(Top.poss_moves)
  /\ LET nxt == next_state(Top)
     IN stack' = Append(SetTop([Top EXCEPT !.at = "wait", !.next_state = nxt]),
                        Frame(callee(Top.fn), nxt, Top.color, Top.alpha, Top.beta,
                              child_limit(Top.limit), Top.caching, Top.ordering))
  /\ UNCHANGED <<cache, ret, call, status, result, prev, hits, cuts>>
  /\ UNCHANGED runai_vars

\* the child has returned: move_util = ...[1], the cache write, the
\* comparison with the best so far, the window update and the break
Resume ==
  /\ stack # <<>>
  /\ Top.at = "wait"
  /\ LET move == Top.poss_moves[Top.k]
         move_util == ret[2]
         better == improves(Top.fn, move_util, Top.util)
         w == window_after(Top.fn, Top.alpha, Top.beta, move_util)
     IN /\ cache' = IF Top.caching # 0
                    THEN cache_store(cache, cache_key(Top.board, Top.next_state),
                                     move, move_util)
                    ELSE cache
        /\ stack' = SetTop([Top EXCEPT
                              !.best = IF better THEN move ELSE @,
                              !.util = IF better THEN move_util ELSE @,
                              !.alpha = w[1],
                              !.beta = w[2],
                              !.k = @ + 1,
                              !.at = IF cutoff(Top.fn, w[1], w[2]) THEN "break"
                                     ELSE "loop"])
        /\ cuts' = IF cutoff(Top.fn, w[1], w[2]) THEN cuts + 1 ELSE cuts
  /\ UNCHANGED <<ret, call, status, result, prev, hits>>
  /\ UNCHANGED runai_vars

\* return best, curr_best_util (after the last move or after the break)
Return ==
  /\ stack # <<>>
  /\ \/ Top.at = "break"
     \/ Top.at = "loop" /\ Top.k > Len(Top.poss_moves)
  /\ ret' = <<Top.best, Top.util>>
  /\ stack' = Pop
  /\ UNCHANGED <<cache, call, status, result, prev, hits, cuts>>
  /\ UNCHANGED runai_vars

SearchStep == CacheHit \/ Moves \/ Leaf \/ Expand \/ Descend \/ Resume \/ Return \/ SelectReturn

(***************************************************************************)
(* The functions called directly (as a test or an importing program does)  *)
(***************************************************************************)
\* the caller holds one position (config.board, config.color) and calls the
\* two functions on it any number of times with any limit and flags
CallMinimax ==
  /\ pc = "api"
  /\ \E limit \in Limits, caching \in Flags :
       /\ Searchable(config.board, limit)
       /\ select_move_minimax(config.board, config.color, limit, caching)
  /\ UNCHANGED runai_vars

CallAlphabeta ==
  /\ pc = "api"
  /\ \E limit \in Limits, caching \in Flags, ordering \in Flags :
       /\ Searchable(config.board, limit)
       /\ select_move_alphabeta(config.board, config.color, limit, caching, ordering)
  /\ UNCHANGED runai_vars

InitSearch ==
  /\ cache = EmptyCache
  /\ stack = <<>>
  /\ ret = <<None, 0>>
  /\ call = NoCall
  /\ status = "idle"
  /\ result = None
  /\ prev = NoPrev
  /\ hits = 0
  /\ cuts = 0

Init ==
  /\ InitSearch
  /\ pc = "api"
  /\ \E board \in Boards, color \in Colors :
       config = [NoCall EXCEPT !.board = board, !.color = color]
  /\ final = FALSE
  /\ late = FALSE
  /\ reads = 0
  /\ prints = 0

Next ==
  \/ CallMinimax
  \/ CallAlphabeta
  \/ CacheHit
  \/ Moves
  \/ Leaf
  \/ Expand
  \/ Descend
  \/ Resume
  \/ Return
  \/ SelectReturn

Spec == Init /\ [][Next]_vars


(***************************************************************************)
(* run_ai: the handshake and the turn loop                                 *)
(***************************************************************************)
\* arguments = input().split(","): color, limit, minimax, caching, ordering
RunAiHandshake ==
  /\ pc = "start"
  /\ \E color \in Colors, limit \in Limits, minimax \in Flags,
        caching \in Flags, ordering \in Flags :
       config' = [fn |-> IF minimax = 1 THEN "select_move_minimax"
                         ELSE "select_move_alphabeta",
                  board |-> <<>>, color |-> color, limit |-> limit,
                  caching |-> caching, ordering |-> ordering]
  /\ pc' = "status"
  /\ UNCHANGED <<final, late, reads, prints>>
  /\ UNCHANGED search_vars

\* next_input = input(); if status == "FINAL": print  (an expression
\* statement that does nothing: the loop goes on)  else: the board is read next
RunAiStatus ==
  /\ pc = "status"
  /\ \E st \in {"SCORE", "FINAL"} :
       IF st = "FINAL"
       THEN /\ final' = TRUE
            /\ pc' = "status"
            /\ UNCHANGED <<reads, prints>>
       ELSE /\ pc' = "board"
            /\ reads' = 0
            /\ prints' = 0
            /\ UNCHANGED final
  /\ late' = (late \/ final)
  /\ UNCHANGED config
  /\ UNCHANGED search_vars

\* input() raises EOFError once the manager has closed the stream, which it
\* does after the FINAL line
RunAiEOF ==
  /\ pc = "status"
  /\ final
  /\ pc' = "error"
  /\ UNCHANGED <<config, final, late, reads, prints>>
  /\ UNCHANGED search_vars

\* board = eval(input()), then the call of the configured function
RunAiBoard ==
  /\ pc = "board"
  /\ \E board \in Boards :
       /\ Searchable(board, config.limit)
       /\ IF config.fn = "select_move_minimax"
          THEN select_move_minimax(board, config.color, config.limit, config.caching)
          ELSE select_move_alphabeta(board, config.color, config.limit,
                                     config.caching, config.ordering)
  /\ reads' = reads + 1
  /\ pc' = "select"
  /\ UNCHANGED <<config, final, late, prints>>

\* movei, movej = select_move_...(...): unpacking None raises TypeError;
\* otherwise print("{} {}".format(movei, movej))
RunAiPrint ==
  /\ pc = "select"
  /\ status = "returned"
  /\ IF result = None
     THEN pc' = "error" /\ UNCHANGED prints
     ELSE pc' = "status" /\ prints' = prints + 1
  /\ UNCHANGED <<config, final, late, reads>>
  /\ UNCHANGED search_vars

InitRunAi ==
  /\ InitSearch
  /\ pc = "start"
  /\ config = NoCall
  /\ final = FALSE
  /\ late = FALSE
  /\ reads = 0
  /\ prints = 0

NextRunAi ==
  \/ RunAiHandshake
  \/ RunAiStatus
  \/ RunAiEOF
  \/ RunAiBoard
  \/ RunAiPrint
  \/ CacheHit
  \/ Moves
  \/ Leaf
  \/ Expand
  \/ Descend
  \/ Resume
  \/ Return
  \/ SelectReturn

SpecRunAi == InitRunAi /\ [][NextRunAi]_vars

\* the interpreter runs a call to its end
SpecFair == Init /\ [][Next]_vars /\ WF_vars(SearchStep)


(***************************************************************************)
(* Properties                                                              *)
(***************************************************************************)
Returned == status = "returned"
IsMinimaxCall == call.fn = "select_move_minimax"
IsAlphabetaCall == call.fn = "select_move_alphabeta"

\* the legal moves of the root player of the call, as a sequence and a set
RootMoves == get_possible_moves(call.board, call.color)
RootMoveSet == { RootMoves[k] : k \in 1..Len(RootMoves) }

\* the value <<move, utility>> of plain minimax without the cache on the
\* inputs of the call
RootMinimax == minimax_node("minimax_max_node", call.board, call.color, call.limit)

\* the minimax value of the root move m: the value of the min node below it
MoveValue(m) ==
  minimax_node("minimax_min_node", play_move(call.board, call.color, m[1], m[2]),
               call.color, child_limit(call.limit))[2]

\* compute_utility of the board a root move leads to
MoveUtility(m) ==
  compute_utility(play_move(call.board, call.color, m[1], m[2]), call.color)

\* the number of disks of a color, counted as a set of cells
Count(board, color) ==
  Cardinality({ c \in (1..Len(board)) \X (1..Len(board)) : board[c[1]][c[2]] = color })

Disks(board) == Count(board, 1) + Count(board, 2)

\* C1: with caching off the root value of alpha-beta (ordering on or off)
\* equals the root value of plain minimax on the same inputs, and the move
\* select_move_alphabeta returns has the same minimax value as the move
\* select_move_minimax returns (which is the move of the uncached minimax)
C1_AlphabetaEqualsMinimax ==
  (Returned /\ call.caching = 0) =>
     LET minimax == RootMinimax
     IN /\ ret[2] = minimax[2]
        /\ (result = None) <=> (minimax[1] = None)
        /\ result # None => MoveValue(result) = MoveValue(minimax[1])
        /\ IsMinimaxCall => result = minimax[1]

\* an alpha-beta search without the cache has broken out of a loop and
\* returned a move other than the one it returned with the other ordering
C1_Witness ==
  /\ Returned /\ IsAlphabetaCall /\ call.caching = 0
  /\ cuts > 0
  /\ prev.valid /\ prev.ordering # call.ordering /\ prev.move # result

\* C2: for either caching setting, select_move_alphabeta with ordering 0
\* and with ordering 1 compute the same root value on the same inputs
C2_OrderingSameValue ==
  (Returned /\ IsAlphabetaCall /\ prev.valid /\ prev.ordering # call.ordering)
     => prev.util = ret[2]

\* C3: with depth limit 0 and a root player who can move, either function
\* returns a legal move that maximizes compute_utility of the resulting board
C3_DepthZeroGreedy ==
  (Returned /\ call.limit = 0 /\ RootMoves # <<>>) =>
     /\ result \in RootMoveSet
     /\ \A m \in RootMoveSet : MoveUtility(result) >= MoveUtility(m)

\* C4: when the root player has no legal move, either function returns
\* None, which is no move and in particular not the placeholder (0, 0),
\* whatever the limit and the flags
C4_NoMoveSentinel ==
  (Returned /\ RootMoves = <<>>) =>
     /\ result = None
     /\ result # <<0, 0>>
     /\ result \notin { <<i, j>> : i \in 0..(Len(call.board) - 1),
                                  j \in 0..(Len(call.board) - 1) }

\* a call with a nonzero limit has returned on a board with empty cells
\* where the root player cannot move and the other player can
C4_Witness ==
  /\ Returned /\ RootMoves = <<>>
  /\ call.limit # 0
  /\ get_possible_moves(call.board, other_color(call.color)) # <<>>
  /\ result = None

\* C5: the cache is empty when the root node of a call looks it up, and a
\* call returns the same move and value as the same call made just before
\* it, whatever was searched before either of them
C5_FreshCachePerCall ==
  /\ (Len(stack) = 1 /\ stack[1].at = "enter") => cache = EmptyCache
  /\ (Returned /\ prev.valid /\ prev.ordering = call.ordering)
        => (prev.move = result /\ prev.util = ret[2])

\* a caching search that served nodes from the cache has been repeated and
\* has returned, with entries in the cache
C5_Witness ==
  /\ Returned /\ call.caching = 1 /\ prev.valid /\ prev.ordering = call.ordering
  /\ hits > 0
  /\ cache # EmptyCache

\* C6: once a FINAL status line has been read no further input line is
\* read, and when the loop is back at reading a status line it has read as
\* many board lines as it has printed moves (one of each per turn)
C6_FinalEndsLoop ==
  /\ ~late
  /\ pc = "status" => reads = prints
  /\ reads <= 1 /\ prints <= 1

\* C7 as stated: with limit 1, caching off and ordering off
\* select_move_alphabeta returns a legal move whose one-ply utility is the
\* root value and is maximal
C7_DepthOneGreedy ==
  (Returned /\ IsAlphabetaCall /\ call.limit = 1 /\ call.caching = 0
     /\ call.ordering = 0) =>
     /\ result \in RootMoveSet
     /\ ret[2] = MoveUtility(result)
     /\ \A m \in RootMoveSet : ret[2] >= MoveUtility(m)

\* C7 amended: the same when the root player has at least one legal move;
\* on the standard starting position with PLAYER_ONE to move the move is
\* one of four and the value is 3
C7_DepthOneGreedyWhenMovable ==
  (Returned /\ IsAlphabetaCall /\ call.limit = 1 /\ call.caching = 0
     /\ call.ordering = 0 /\ RootMoves # <<>>) =>
     /\ result \in RootMoveSet
     /\ ret[2] = MoveUtility(result)
     /\ \A m \in RootMoveSet : ret[2] >= MoveUtility(m)
     /\ (call.board = StandardStart /\ call.color = PLAYER_ONE) =>
           /\ Cardinality(RootMoveSet) = 4
           /\ ret[2] = 3
           /\ get_score(play_move(call.board, call.color, result[1], result[2]))
                = <<4, 1>>

\* the depth-1 search on the standard starting position has returned
C7_Witness ==
  /\ Returned /\ IsAlphabetaCall /\ call.limit = 1 /\ call.caching = 0
  /\ call.ordering = 0
  /\ call.board = StandardStart /\ call.color = PLAYER_ONE
  /\ result \in RootMoveSet

\* C8: on every board a node is called with, the utility for PLAYER_ONE is
\* the negation of the utility for PLAYER_TWO, and the utility for a color
\* is its disk count minus the other player's, as get_score reports them
C8_UtilitySymmetry ==
  (stack # <<>> /\ Top.at = "enter") =>
     LET board == Top.board
     IN /\ compute_utility(board, PLAYER_ONE) = -compute_utility(board, PLAYER_TWO)
        /\ get_score(board) = <<Count(board, PLAYER_ONE), Count(board, PLAYER_TWO)>>
        /\ \A color \in Colors :
              compute_utility(board, color)
                = Count(board, color) - Count(board, other_color(color))

\* a node has just returned a nonzero static utility for PLAYER_TWO
C8_Witness ==
  /\ status = "running" /\ call.color = PLAYER_TWO
  /\ stack # <<>>
  /\ ret[1] = None /\ ret[2] # 0

\* the step by which a node returns a static utility
StaticReturn ==
  /\ stack # <<>>
  /\ Top.at = "test"
  /\ stack' = Pop
  /\ ret'[1] = None

\* C9: with limit -1 no node is ever called with limit 0 and a static
\* utility is returned only where the player to move has no legal move;
\* the stack is never deeper than the empty cells of the root board allow;
\* and every call returns
C9_UnlimitedSearchTerminates ==
  /\ [](call.limit = -1 => \A d \in 1..Len(stack) : stack[d].limit # 0)
  /\ [](Len(stack) <= Empties(call.board) + 1)
  /\ [][(call.limit = -1 /\ StaticReturn) =>
          get_possible_moves(Top.board, mover(Top.fn, Top.color)) = <<>>]_vars
  /\ (status = "running") ~> (status = "returned")

\* an unlimited search has returned a move after going at least three deep
C9_Witness ==
  /\ Returned /\ call.limit = -1 /\ result # None
  /\ Empties(call.board) >= 5

\* C10: select_move_minimax with caching on returns the move and root
\* value of minimax without the cache; during it a board at depth d has d
\* disks more than the root board, the root board is not in the cache, and
\* no write changes the value of an entry already in the cache
C10_MinimaxCachingHarmless ==
  /\ []((Returned /\ IsMinimaxCall /\ call.caching = 1) =>
          LET minimax == RootMinimax
          IN result = minimax[1] /\ ret[2] = minimax[2])
  /\ [](IsMinimaxCall =>
          /\ \A d \in 1..Len(stack) :
                Disks(stack[d].board) = Disks(call.board) + d - 1
          /\ \A b \in DOMAIN cache : Disks(b) > Disks(call.board)
          /\ call.board \notin DOMAIN cache)
  /\ [][(IsMinimaxCall /\ call' = call) =>
          \A b \in DOMAIN cache \cap DOMAIN cache' : cache'[b][2] = cache[b][2]]_vars

\* a caching minimax search has served nodes from the cache and returned a move
C10_Witness ==
  /\ Returned /\ IsMinimaxCall /\ call.caching = 1
  /\ hits > 0
  /\ result # None

====
